---- MODULE Spec2Model ----
(***************************************************************************)
(* Devcast: ingestion of GitHub events into Activities, generation of      *)
(* Content drafts, the chat approval commands, the dashboard APIs and the  *)
(* scheduler/publisher, as a state machine over the two persisted          *)
(* collections (Activity, Content).                                        *)
(*                                                                         *)
(* Modelling conventions                                                   *)
(*  - The store is a document store: a record keeps the fields the code    *)
(*    writes.  The legacy and current field spellings of one concept       *)
(*    (user/userId, repository/repo, commitSha/metadata.commitSha, ...)    *)
(*    are one logical field here.                                          *)
(*  - A text is abstracted to where it came from and how long it is.       *)
(*  - Wall-clock timestamps (processedAt, approvedAt, ...) are not part    *)
(*    of the state.                                                        *)
(***************************************************************************)
EXTENDS Integers, Sequences, FiniteSets, TLC

\* ------------------------------------------------------------------ bounds
MaxActivities == 3
MaxContents == 2
MaxBatch == 2

\* ------------------------------------------------------- program constants
TweetLimit == 280

\* ------------------------------------------------------------- the users
Users == {"A", "B", "C"}
Logins == {"A", "B", "C", "ghost"}
Chats == {1, 2, 3}

\* User documents.  A: GitHub token, Twitter credentials, chat 1.
\* B: GitHub token, no Twitter credentials, auto-approve, chat 2.
\* C: signed up but linked nothing.
UserTable ==
  [u \in Users |->
     CASE u = "A" -> [githubToken |-> TRUE, twitterCreds |-> TRUE,
                      chatId |-> 1, autoApprove |-> FALSE]
       [] u = "B" -> [githubToken |-> TRUE, twitterCreds |-> FALSE,
                      chatId |-> 2, autoApprove |-> TRUE]
       [] u = "C" -> [githubToken |-> FALSE, twitterCreds |-> FALSE,
                      chatId |-> 0, autoApprove |-> FALSE]]

\* User.findOne({ github.username | githubUsername })
FindUserByLogin(login) == IF login \in Users THEN login ELSE "none"

\* User.findOne({ 'telegram.chatId': chatId })
FindUserByChat(chat) ==
  IF \E u \in Users : UserTable[u].chatId = chat
  THEN CHOOSE u \in Users : UserTable[u].chatId = chat
  ELSE "none"

\* ------------------------------------------------------------------ state
VARIABLES
  activities,   \* Activity collection: sequence of documents, _id = index
  contents,     \* Content collection: sequence of documents, _id = index
  tweets,       \* what the social platform has accepted
  procs,        \* handlers in flight (between their store calls)
  call,         \* the postTweet call in flight
  generator,    \* the ContentGenerator instance and its provider call
  users,        \* User documents that /register created or linked
  last          \* the operation that ran last: its input and its outcome

vars == <<activities, contents, tweets, procs, call, generator, users, last>>

Shas == {1, 2}

NoMeta == [state |-> "none", merged |-> FALSE, labels |-> "none"]


\* a lookup that ignores the external id and only ever matches the first
\* document of the collection
FindActivity_firstOnly(acts, user, type, ext) ==
  IF acts # <<>> /\ acts[1].userId = user /\ acts[1].type = type /\ acts[1].ext = ext
  THEN 1 ELSE 0

\* Activity.findOne({ userId, type, <external id> }): the first match, 0 if none
FindActivity(acts, user, type, ext) ==
  IF \E i \in DOMAIN acts :
       acts[i].userId = user /\ acts[i].type = type /\ acts[i].ext = ext
  THEN CHOOSE i \in DOMAIN acts :
         /\ acts[i].userId = user /\ acts[i].type = type /\ acts[i].ext = ext
         /\ \A j \in DOMAIN acts :
              (acts[j].userId = user /\ acts[j].type = type /\ acts[j].ext = ext)
                => i <= j
  ELSE 0

\* the document the webhook handlers and the sync build for Activity.create
NewActivity(user, type, ext, meta) ==
  [userId |-> user, type |-> type, repo |-> "r1", ext |-> ext,
   status |-> "pending", meta |-> meta, content |-> "none"]

\* ------------------------------------------------------- webhook payloads
\* A payload without repository/owner information carries no login.  The
\* events of owner A are enumerated in full; of B only a push of commit 1
\* (the same sha as one of A's); of the owners the handlers drop (C has no
\* token, ghost is no user) one payload per kind, of which nothing is read.
Accepted == {l \in Logins : l \in Users /\ UserTable[l].githubToken}
Dropped == Logins \ Accepted
DefaultMeta == [state |-> "open", merged |-> FALSE, labels |-> "none"]

Payload(kind, login, valid, action, items, meta) ==
  [kind |-> kind, login |-> login, valid |-> valid, action |-> action,
   items |-> items, meta |-> meta]

PushPayloads ==
  {Payload("push", "A", TRUE, "none", c, NoMeta) :
      c \in UNION {[1..n -> Shas] : n \in 0..MaxBatch}}
  \cup {Payload("push", l, TRUE, "none", <<1>>, NoMeta) : l \in Logins \ {"A"}}
  \cup {Payload("push", "none", FALSE, "none", <<1>>, NoMeta)}

PullRequestPayloads ==
  {Payload("pull_request", "A", TRUE, a, <<n>>,
           [state |-> s.state, merged |-> s.merged, labels |-> "none"]) :
      a \in {"opened", "synchronize"}, n \in {1},
      s \in {[state |-> "open", merged |-> FALSE],
             [state |-> "closed", merged |-> FALSE],
             [state |-> "closed", merged |-> TRUE]}}
  \cup {Payload("pull_request", l, TRUE, "opened", <<1>>, DefaultMeta) : l \in Dropped}
  \cup {Payload("pull_request", "none", FALSE, "opened", <<1>>, DefaultMeta)}

IssuePayloads ==
  {Payload("issues", "A", TRUE, a, <<n>>,
           [state |-> s, merged |-> FALSE, labels |-> "none"]) :
      a \in {"opened", "labeled"}, n \in {1}, s \in {"open", "closed"}}
  \cup {Payload("issues", l, TRUE, "opened", <<1>>, DefaultMeta) : l \in Dropped}
  \cup {Payload("issues", "none", FALSE, "opened", <<1>>, DefaultMeta)}

ReleasePayloads ==
  {Payload("release", "A", TRUE, a, <<t>>, NoMeta) :
      a \in {"published", "created"}, t \in {1}}
  \cup {Payload("release", l, TRUE, "published", <<1>>, NoMeta) : l \in Dropped}
  \cup {Payload("release", "none", FALSE, "published", <<1>>, NoMeta)}

\* the guard every handler runs before it touches the Activity collection:
\* payload shape, the user lookup and the access-token check
AcceptedOwner_anyUser(p) ==
  /\ p.valid
  /\ FindUserByLogin(p.login) # "none"

AcceptedOwner(p) ==
  /\ p.valid
  /\ FindUserByLogin(p.login) # "none"
  /\ UserTable[FindUserByLogin(p.login)].githubToken

\* handlePushEvent: every commit of the batch is looked up and, when absent,
\* created; the result is the collection after the whole loop
\* A commit of FailingShas is one Activity.create rejects (the first line of
\* its message is empty, and the schema requires a title): the rejection is
\* caught by the try block around the whole loop, which ends the handler.
FailingShas == {3}

RECURSIVE PushLoop(_, _, _)
PushLoop(acts, user, shas) ==
  IF shas = <<>> THEN acts
  ELSE IF FindActivity(acts, user, "commit", Head(shas)) # 0
       THEN PushLoop(acts, user, Tail(shas))
       ELSE IF Head(shas) \in FailingShas THEN acts
       ELSE PushLoop(Append(acts, NewActivity(user, "commit", Head(shas), NoMeta)),
                     user, Tail(shas))

handlePushEventResult(acts, p) ==
  IF ~AcceptedOwner(p) THEN acts
  ELSE PushLoop(acts, FindUserByLogin(p.login), p.items)

handlePullRequestEventResult_replaces(acts, p) ==
  IF ~p.valid \/ p.action \notin {"opened", "closed", "reopened"} THEN acts
  ELSE IF ~AcceptedOwner(p) THEN acts
  ELSE LET user == FindUserByLogin(p.login)
           found == FindActivity(acts, user, "pr", p.items[1])
       IN IF found = 0
          THEN Append(acts, NewActivity(user, "pr", p.items[1], p.meta))
          ELSE IF acts[found].meta.state # p.meta.state
                  \/ acts[found].meta.merged # p.meta.merged
               THEN [acts EXCEPT ![found] = NewActivity(user, "pr", p.items[1], p.meta)]
               ELSE acts

\* handlePullRequestEvent: a pull request seen before is updated in place
\* when its state or merged flag differs; title, description and metadata
\* are the fields of the update (meta here)
handlePullRequestEventResult(acts, p) ==
  IF ~p.valid \/ p.action \notin {"opened", "closed", "reopened"} THEN acts
  ELSE IF ~AcceptedOwner(p) THEN acts
  ELSE LET user == FindUserByLogin(p.login)
           found == FindActivity(acts, user, "pr", p.items[1])
       IN IF found = 0
          THEN Append(acts, NewActivity(user, "pr", p.items[1], p.meta))
          ELSE IF acts[found].meta.state # p.meta.state
                  \/ acts[found].meta.merged # p.meta.merged
               THEN [acts EXCEPT ![found].meta = p.meta]
               ELSE acts

\* handleIssueEvent
handleIssueEventResult(acts, p) ==
  IF ~p.valid \/ p.action \notin {"opened", "closed", "reopened"} THEN acts
  ELSE IF ~AcceptedOwner(p) THEN acts
  ELSE LET user == FindUserByLogin(p.login)
           found == FindActivity(acts, user, "issue", p.items[1])
       IN IF found = 0
          THEN Append(acts, NewActivity(user, "issue", p.items[1], p.meta))
          ELSE IF acts[found].meta.state # p.meta.state
               THEN [acts EXCEPT ![found].meta = p.meta]
               ELSE acts

\* handleReleaseEvent
handleReleaseEventResult(acts, p) ==
  IF ~p.valid \/ p.action # "published" THEN acts
  ELSE IF ~AcceptedOwner(p) THEN acts
  ELSE LET user == FindUserByLogin(p.login)
       IN IF FindActivity(acts, user, "release", p.items[1]) # 0 THEN acts
          ELSE Append(acts, NewActivity(user, "release", p.items[1], NoMeta))

\* the switch of the webhook handler over the event type
WebhookResult(acts, p) ==
  CASE p.kind = "push" -> handlePushEventResult(acts, p)
    [] p.kind = "pull_request" -> handlePullRequestEventResult(acts, p)
    [] p.kind = "issues" -> handleIssueEventResult(acts, p)
    [] p.kind = "release" -> handleReleaseEventResult(acts, p)
    [] OTHER -> acts

\* the event is one the handler ingests (not dropped at the boundary)
Ingested(p) ==
  /\ AcceptedOwner(p)
  /\ p.kind = "pull_request" => p.action \in {"opened", "closed", "reopened"}
  /\ p.kind = "issues" => p.action \in {"opened", "closed", "reopened"}
  /\ p.kind = "release" => p.action = "published"

KindType(kind) ==
  CASE kind = "push" -> "commit"
    [] kind = "pull_request" -> "pr"
    [] kind = "issues" -> "issue"
    [] kind = "release" -> "release"

NoLast == [op |-> "none", payload |-> <<>>, before |-> 0, repeat |-> FALSE]

\* One webhook delivery, handled start to end.  last remembers the payload,
\* the size of the collection before the delivery and whether the payload is
\* the one of the delivery handled immediately before.
Deliver(p) ==
  /\ Len(WebhookResult(activities, p)) <= MaxActivities
  /\ activities' = WebhookResult(activities, p)
  /\ last' = [op |-> "webhook", payload |-> p, before |-> Len(activities),
              repeat |-> (last.op = "webhook" /\ last.payload = p)]
  /\ UNCHANGED <<users, contents, tweets, procs, call, generator>>

DeliverPush == \E p \in PushPayloads : Deliver(p)
DeliverPullRequest == \E p \in PullRequestPayloads : Deliver(p)
DeliverIssue == \E p \in IssuePayloads : Deliver(p)
DeliverRelease == \E p \in ReleasePayloads : Deliver(p)

\* a delivery about a pull request or an issue with or without a label
DeliverLabelled ==
  \E p \in PullRequestPayloads \cup IssuePayloads, lb \in {"none", "bug"} :
     Deliver([p EXCEPT !.meta.labels = lb])

IdleProc == [pc |-> "idle", user |-> "none", sha |-> 0, found |-> FALSE]
NoProcs == [h \in {"webhook1", "webhook2", "sync"} |-> IdleProc]
NoCall == [pc |-> "idle", cid |-> 0, retries |-> 0, response |-> "none", accepted |-> 0]
NoGen ==
  [pc |-> "none", requested |-> "none", keys |-> [openai |-> FALSE, anthropic |-> FALSE],
   openai |-> FALSE, anthropic |-> FALSE, provider |-> "none", maxRetries |-> 0,
   pref |-> "none", path |-> "none", retries |-> 0, calls |-> 0,
   response |-> "none", fatalSeen |-> FALSE]

InitIngest ==
  /\ activities = <<>>
  /\ contents = <<>>
  /\ tweets = {}
  /\ procs = NoProcs
  /\ call = NoCall
  /\ generator = NoGen
  /\ users = <<>>
  /\ last = NoLast

SpecIngest ==
  InitIngest /\ [][
         \/ DeliverPush
         \/ DeliverPullRequest
         \/ DeliverIssue
         \/ DeliverRelease]_vars

\* C1: after the same webhook payload has been delivered twice in sequence
\* for a known user with a token, the second delivery has created nothing
\* and every natural key of the payload has exactly one Activity; whatever
\* a delivery creates is created with status pending.
KeyCount(user, type, ext) ==
  Cardinality({i \in DOMAIN activities : /\ activities[i].userId = user
                              /\ activities[i].type = type
                              /\ activities[i].ext = ext})

CommitLookup(h) ==
  /\ procs[h].pc = "idle"
  /\ \E u \in Accepted, c \in Shas :
       procs' = [procs EXCEPT ![h] =
                   [pc |-> "looked", user |-> u, sha |-> c,
                    found |-> FindActivity(activities, u, "commit", c) # 0]]
  /\ UNCHANGED <<users, activities, contents, tweets, call, last, generator>>

CommitCreate(h) ==
  /\ procs[h].pc = "looked"
  /\ IF procs[h].found
     THEN UNCHANGED activities
     ELSE /\ Len(activities) < MaxActivities
          /\ activities' = Append(activities,
                NewActivity(procs[h].user, "commit", procs[h].sha, NoMeta))
  /\ procs' = [procs EXCEPT ![h] = IdleProc]
  /\ UNCHANGED <<users, contents, tweets, call, last, generator>>

handlePushEventLookup == \E h \in {"webhook1", "webhook2"} : CommitLookup(h)
handlePushEventCreate == \E h \in {"webhook1", "webhook2"} : CommitCreate(h)
saveCommitActivityLookup == CommitLookup("sync")
saveCommitActivityCreate == CommitCreate("sync")

SpecRace ==
  InitIngest /\ [][
         \/ handlePushEventLookup
         \/ handlePushEventCreate
         \/ saveCommitActivityLookup
         \/ saveCommitActivityCreate]_vars

\* C2: under every interleaving of the ingestion handlers the store holds
\* at most one Activity per (user, type, external id).
C2_UniqueNaturalKey ==
  \A i, j \in DOMAIN activities :
     (/\ activities[i].userId = activities[j].userId
      /\ activities[i].type = activities[j].type
      /\ activities[i].ext = activities[j].ext) => i = j

\* ------------------------------------------------- generation of Content
\* A text is its origin and its length.  Lens are the lengths a text can
\* have: one within the platform limit and one beyond it.
Lens == {120, 300}
Text(src, len) == [src |-> src, len |-> len]

\* metadata is kept as the keys the code reads back
NoMetadata == [generatedByFallback |-> FALSE, approvedBy |-> "none", error |-> FALSE]

NewContent(user, ids, text, fallback) ==
  [user |-> user, related |-> ids, text |-> text, status |-> "pending",
   metadata |-> [NoMetadata EXCEPT !.generatedByFallback = fallback,
                                   !.error = fallback],
   posted |-> FALSE,
   scheduledFor |-> "none",   \* declared by the schema, written nowhere
   analytics |-> "none",      \* the metrics of the post, once fetched
   unapprovedEdit |-> FALSE]  \* history: edited and not approved since

\* Activity.updateMany({_id: {$in: ids}}, {$set: {status}})
SetStatus(acts, ids, st) ==
  [i \in DOMAIN acts |-> IF i \in ids THEN [acts[i] EXCEPT !.status = st] ELSE acts[i]]

\* What one run of the provider and of the store's cast of its result gives:
\* ai is "text" when generateTextWithAI resolved and "failed" when every
\* attempt of the provider failed; generateTextWithAI resolves to the record
\* {text, debug}, which generateContentForRepository hands to Content.create
\* as the String field text: cast says whether the store takes it (it then
\* holds the provider's text) or rejects the document, which throws into the
\* same catch block as a provider failure.  len is the length of the
\* provider's text, fallbackLen the length of generateFallbackContent's text,
\* which grows with the repository name and is not truncated.
GenOutcomes ==
  {[ai |-> "text", cast |-> TRUE, len |-> l, fallbackLen |-> 120] : l \in Lens}
  \cup {[ai |-> "text", cast |-> FALSE, len |-> 120, fallbackLen |-> l] : l \in Lens}
  \cup {[ai |-> "failed", cast |-> FALSE, len |-> 120, fallbackLen |-> l] : l \in Lens}

generateFallbackContent(o) == Text("fallback", o.fallbackLen)

generateContentForRepository_keepsPending(st, user, ids, o) ==
  [a |-> st.a,
   c |-> Append(st.c, NewContent(user, ids, generateFallbackContent(o), TRUE))]

generateContentForRepository(st, user, ids, o) ==
  IF o.ai = "text" /\ o.cast
  THEN [a |-> SetStatus(st.a, ids, "processed"),
        c |-> Append(st.c, NewContent(user, ids, Text("ai", o.len), FALSE))]
  ELSE [a |-> SetStatus(st.a, ids, "processed"),
        c |-> Append(st.c, NewContent(user, ids, generateFallbackContent(o), TRUE))]

Repos == {"r1"}
ActivitiesOf(acts, user) == {i \in DOMAIN acts : acts[i].userId = user}
InRepo(acts, ids, repo) == {i \in ids : acts[i].repo = repo}

\* TelegramService.generateContent: one Content per repository of the
\* user's activities, whatever their status
RECURSIVE GenerateRepos(_, _, _, _, _)
GenerateRepos(st, user, ids, repos, o) ==
  IF repos = {} THEN st
  ELSE LET r == CHOOSE x \in repos : TRUE
           next == IF InRepo(st.a, ids, r) = {} THEN st
                   ELSE generateContentForRepository(st, user, InRepo(st.a, ids, r), o)
       IN GenerateRepos(next, user, ids, repos \ {r}, o)

\* The messages the approval commands send to the acting chat, in order, by
\* the command and how it ended (the messages of the other operations are
\* not tracked).  An error thrown by a command is sent by handleCallback /
\* handleCommand as "Error: " and its text.
Replies(op, result) ==
  CASE op = "approve" /\ result = "unregistered" -> <<"Error: You need to register first">>
    [] op = "approve" /\ result = "not_found" -> <<"Content not found">>
    [] op = "approve" /\ result = "ok" ->
         <<"Content approved: (text)", "Content approved successfully">>
    [] op = "reject" /\ result = "ok" -> <<"Content rejected">>
    [] op = "edit" /\ result = "ok" ->
         <<"Content edited successfully", "(content with action buttons)">>
    [] op = "schedule" /\ result = "ok" -> <<"Choose when to post:">>
    [] op \in {"reject", "edit", "schedule"} /\ result = "not_found" ->
         <<"Error: Content not found">>
    [] op \in {"reject", "edit", "schedule"} /\ result = "unauthorized" ->
         <<"Error: Unauthorized: You don't have permission">>
    [] OTHER -> <<>>

NoOp == [op |-> "none", chat |-> 0, actor |-> "none", target |-> 0,
         result |-> "none", repeat |-> FALSE, outcome |-> <<>>, replies |-> <<>>]

Op(op, chat, actor, target, result, outcome) ==
  [op |-> op, chat |-> chat, actor |-> actor, target |-> target,
   result |-> result, outcome |-> outcome, replies |-> Replies(op, result),
   repeat |-> (op = "approve" /\ last.op = op /\ last.chat = chat
               /\ last.target = target /\ last.result = result)]

TelegramGenerate(chat, o) ==
  LET user == FindUserByChat(chat)
      ids == IF user = "none" THEN {} ELSE ActivitiesOf(activities, user)
      st == GenerateRepos([a |-> activities, c |-> contents], user, ids, Repos, o)
  IN /\ Len(st.c) <= MaxContents
     /\ activities' = st.a
     /\ contents' = st.c
     /\ last' = Op("generate", chat, user, Len(contents) + 1,
                   IF user = "none" THEN "unregistered"
                   ELSE IF ids = {} THEN "no_activities" ELSE "ok", o)
     /\ UNCHANGED <<users, tweets, procs, call, generator>>

generateContent == \E chat \in Chats, o \in GenOutcomes : TelegramGenerate(chat, o)

\* ------------------------------------------------ approval over the chat
\* TelegramService.approveContent(contentId, userId): looks the Content and
\* the calling user up and checks nothing else
approveContent_toggles(st, cid, user) ==
  IF cid \notin DOMAIN st.c THEN [a |-> st.a, c |-> st.c, result |-> "not_found"]
  ELSE [a |-> SetStatus(st.a, st.c[cid].related, "published"),
        c |-> [st.c EXCEPT ![cid].status =
                  IF @ = "approved" THEN "pending" ELSE "approved",
                           ![cid].metadata.approvedBy = user,
                           ![cid].unapprovedEdit = FALSE],
        result |-> "ok"]

approveContent(st, cid, user) ==
  IF cid \notin DOMAIN st.c THEN [a |-> st.a, c |-> st.c, result |-> "not_found"]
  ELSE [a |-> SetStatus(st.a, st.c[cid].related, "published"),
        c |-> [st.c EXCEPT ![cid].status = "approved",
                           ![cid].metadata.approvedBy = user,
                           ![cid].unapprovedEdit = FALSE],
        result |-> "ok"]

\* Content.exists({relatedActivities: aid, status in approved/posted, _id != cid})
hasApprovedContent(cons, aid, cid) ==
  \E k \in DOMAIN cons :
     k # cid /\ aid \in cons[k].related /\ cons[k].status \in {"approved", "posted"}

rejectContent_cascadesAll(st, cid, chat) ==
  IF cid \notin DOMAIN st.c THEN [a |-> st.a, c |-> st.c, result |-> "not_found"]
  ELSE IF UserTable[st.c[cid].user].chatId # chat
  THEN [a |-> st.a, c |-> st.c, result |-> "unauthorized"]
  ELSE LET cons == [st.c EXCEPT ![cid].status = "rejected"]
       IN [a |-> SetStatus(st.a, st.c[cid].related, "processed"),
           c |-> cons, result |-> "ok"]

\* TelegramService.rejectContent(contentId, chatId)
rejectContent(st, cid, chat) ==
  IF cid \notin DOMAIN st.c THEN [a |-> st.a, c |-> st.c, result |-> "not_found"]
  ELSE IF UserTable[st.c[cid].user].chatId # chat
  THEN [a |-> st.a, c |-> st.c, result |-> "unauthorized"]
  ELSE LET cons == [st.c EXCEPT ![cid].status = "rejected"]
       IN [a |-> SetStatus(st.a,
                   {i \in st.c[cid].related : ~hasApprovedContent(cons, i, cid)},
                   "processed"),
           c |-> cons, result |-> "ok"]

\* TelegramService.editContent(contentId, newText, chatId)
editContent(st, cid, len, chat) ==
  IF cid \notin DOMAIN st.c THEN [a |-> st.a, c |-> st.c, result |-> "not_found"]
  ELSE IF UserTable[st.c[cid].user].chatId # chat
  THEN [a |-> st.a, c |-> st.c, result |-> "unauthorized"]
  ELSE [a |-> st.a,
        c |-> [st.c EXCEPT ![cid].text = Text("edit", len),
                           ![cid].status = "pending",
                           ![cid].unapprovedEdit = TRUE],
        result |-> "ok"]

Store == [a |-> activities, c |-> contents]
ContentIds == 1..MaxContents

\* handleCallback, data "approve:<id>"
ApproveCallback(chat, cid) ==
  LET user == FindUserByChat(chat)
      r == IF user = "none"
           THEN [a |-> activities, c |-> contents, result |-> "unregistered"]
           ELSE approveContent(Store, cid, user)
  IN /\ activities' = r.a
     /\ contents' = r.c
     /\ last' = Op("approve", chat, user, cid, r.result, <<>>)
     /\ UNCHANGED <<users, tweets, procs, call, generator>>

\* handleCallback, data "reject:<id>"
RejectCallback(chat, cid) ==
  LET r == rejectContent(Store, cid, chat)
  IN /\ activities' = r.a
     /\ contents' = r.c
     /\ last' = Op("reject", chat, FindUserByChat(chat), cid, r.result, <<>>)
     /\ UNCHANGED <<users, tweets, procs, call, generator>>

\* handleCommand, "/edit <id> <text>"
EditCommand(chat, cid, len) ==
  LET r == editContent(Store, cid, len, chat)
  IN /\ activities' = r.a
     /\ contents' = r.c
     /\ last' = Op("edit", chat, FindUserByChat(chat), cid, r.result, <<>>)
     /\ UNCHANGED <<users, tweets, procs, call, generator>>

handleCallbackApprove == \E chat \in Chats, cid \in ContentIds : ApproveCallback(chat, cid)
handleCallbackReject == \E chat \in Chats, cid \in ContentIds : RejectCallback(chat, cid)
handleCommandEdit ==
  \E chat \in Chats, cid \in ContentIds, len \in Lens : EditCommand(chat, cid, len)

\* TelegramService.scheduleContent(contentId, chatId): the ownership check
\* and the keyboard of scheduling options; nothing is written
scheduleContent(st, cid, chat) ==
  IF cid \notin DOMAIN st.c THEN [a |-> st.a, c |-> st.c, result |-> "not_found"]
  ELSE IF UserTable[st.c[cid].user].chatId # chat
  THEN [a |-> st.a, c |-> st.c, result |-> "unauthorized"]
  ELSE [a |-> st.a, c |-> st.c, result |-> "ok"]

\* handleCallback, data "schedule:<id>"
ScheduleCallback(chat, cid) ==
  LET r == scheduleContent(Store, cid, chat)
  IN /\ activities' = r.a
     /\ contents' = r.c
     /\ last' = Op("schedule", chat, FindUserByChat(chat), cid, r.result, <<>>)
     /\ UNCHANGED <<users, tweets, procs, call, generator>>

\* handleCallback, data "schedule-time:<id>:<option>", the button of the
\* scheduling keyboard: no branch of handleCallback matches it (the prefix
\* tested is "schedule:"), the query is acknowledged and nothing else happens
ScheduleTimeCallback(chat, cid, option) ==
  /\ last' = Op("schedule_time", chat, FindUserByChat(chat), cid, "ignored", <<option>>)
  /\ UNCHANGED <<users, activities, contents, tweets, procs, call, generator>>

handleCallbackSchedule == \E chat \in Chats, cid \in ContentIds : ScheduleCallback(chat, cid)
\* with the options of the scheduling keyboard
handleCallbackScheduleTime ==
  \E chat \in Chats, cid \in ContentIds, option \in {"1h", "3h", "9am", "7pm", "best"} :
     ScheduleTimeCallback(chat, cid, option)

\* ------------------------------------------------------- dashboard APIs
\* PUT /api/content: Content.findOne({_id, userId}) for the session's user,
\* then the status (and for edit the text) is written; activities untouched
ContentPut(user, cid, action, len) ==
  LET found == cid \in DOMAIN contents /\ contents[cid].user = user
  IN /\ contents' =
          IF ~found THEN contents
          ELSE CASE action = "approve" ->
                      [contents EXCEPT ![cid].status = "approved",
                                       ![cid].unapprovedEdit = FALSE]
                 [] action = "reject" ->
                      [contents EXCEPT ![cid].status = "rejected"]
                 [] action = "edit" ->
                      [contents EXCEPT ![cid].status = "edited",
                                       ![cid].text = Text("edit", len),
                                       ![cid].unapprovedEdit = TRUE]
     /\ last' = Op("put_" \o action, 0, user, cid,
                   IF found THEN "ok" ELSE "not_found", <<>>)
     /\ UNCHANGED <<users, activities, tweets, procs, call, generator>>

contentPut ==
  \E user \in Users, cid \in ContentIds, action \in {"approve", "reject", "edit"},
     len \in Lens : ContentPut(user, cid, action, len)

ActivityIdSpace == 1..MaxActivities

\* PATCH /api/activities/[id]: the body's status is written to the session
\* user's activity as it comes
UpdateActivity(user, aid, st) ==
  LET found == aid \in DOMAIN activities /\ activities[aid].userId = user
  IN /\ activities' = IF found THEN SetStatus(activities, {aid}, st) ELSE activities
     /\ last' = Op("patch", 0, user, aid, IF found THEN "ok" ELSE "not_found", <<>>)
     /\ UNCHANGED <<users, contents, tweets, procs, call, generator>>

updateActivity ==
  \E user \in Users, aid \in ActivityIdSpace,
     st \in {"pending", "processed", "published"} :
     UpdateActivity(user, aid, st)

\* POST /api/activities/process and /api/activities/publish: the session
\* user's activities among the given ids that are in status from move to
\* status to
MoveActivities_anyOwner(op, user, ids, from, to) ==
  LET sel == {i \in ids \cap DOMAIN activities : activities[i].status = from}
  IN /\ activities' = [i \in DOMAIN activities |->
                         IF i \notin sel THEN activities[i]
                         ELSE [activities[i] EXCEPT
                                 !.status = to,
                                 !.content = IF op = "process" THEN "placeholder" ELSE @]]
     /\ last' = Op(op, 0, user, 0, IF sel = {} THEN "not_found" ELSE "ok",
                  IF op = "process" THEN <<ids>> ELSE <<>>)
     /\ UNCHANGED <<users, contents, tweets, procs, call, generator>>

\* The process endpoint also writes the placeholder text to the Activity's
\* content field.
MoveActivities(op, user, ids, from, to) ==
  LET sel == {i \in ids \cap DOMAIN activities :
                 activities[i].userId = user /\ activities[i].status = from}
  IN /\ activities' = [i \in DOMAIN activities |->
                         IF i \notin sel THEN activities[i]
                         ELSE [activities[i] EXCEPT
                                 !.status = to,
                                 !.content = IF op = "process" THEN "placeholder" ELSE @]]
     /\ last' = Op(op, 0, user, 0, IF sel = {} THEN "not_found" ELSE "ok",
                  IF op = "process" THEN <<ids>> ELSE <<>>)
     /\ UNCHANGED <<users, contents, tweets, procs, call, generator>>

processActivities ==
  \E user \in Users, ids \in (SUBSET ActivityIdSpace) \ {{}} :
     MoveActivities("process", user, ids, "pending", "processed")

publishActivities ==
  \E user \in Users, ids \in (SUBSET ActivityIdSpace) \ {{}} :
     MoveActivities("publish", user, ids, "processed", "published")

\* ------------------------------------------------------------- scheduler
UserOrder == <<"A", "B", "C">>

\* ContentGenerator.generateContent reads at most this many activities
RecentLimit == 10

\* Activity.find({user, processed: false}).sort({createdAt: -1}).limit(10):
\* the newest unprocessed activities of the user (ids grow with createdAt)
PendingOf(acts, user) ==
  LET all == {i \in ActivitiesOf(acts, user) : acts[i].status = "pending"}
  IN {i \in all : Cardinality({j \in all : j > i}) < RecentLimit}

MostActiveRepo_lastOnTie(acts, ids) ==
  LET Group(r) == InRepo(acts, ids, r)
      First(r) == Cardinality({j \in ids : \A i \in Group(r) : j > i})
      groups == {acts[i].repo : i \in ids}
  IN CHOOSE r \in groups :
       \A q \in groups \ {r} :
          \/ Cardinality(Group(r)) > Cardinality(Group(q))
          \/ /\ Cardinality(Group(r)) = Cardinality(Group(q))
             /\ First(r) > First(q)

\* ContentGenerator.generateContent: the activities are grouped by repository
\* in their input order (newest first), the groups keep the order in which
\* their first activity came, and a stable sort by descending size puts the
\* chosen group first.  First(r) counts the activities that come before the
\* first one of group r.
MostActiveRepo(acts, ids) ==
  LET Group(r) == InRepo(acts, ids, r)
      First(r) == Cardinality({j \in ids : \A i \in Group(r) : j > i})
      groups == {acts[i].repo : i \in ids}
  IN CHOOSE r \in groups :
       \A q \in groups \ {r} :
          \/ Cardinality(Group(r)) > Cardinality(Group(q))
          \/ /\ Cardinality(Group(r)) = Cardinality(Group(q))
             /\ First(r) < First(q)

\* Scheduler.generateContentForAllUsers: for each user in turn
\* generateContent(), then the auto-approve of what it returned
RECURSIVE GenerateUsers(_, _, _)
GenerateUsers(st, k, outs) ==
  IF k > Len(UserOrder) THEN st
  ELSE LET u == UserOrder[k]
           ids == PendingOf(st.a, u)
           sel == InRepo(st.a, ids, MostActiveRepo(st.a, ids))
           gen == generateContentForRepository(st, u, sel, outs[u])
           new == Len(gen.c)
           next == IF ids = {} THEN st
                   ELSE IF UserTable[u].autoApprove
                   THEN [a |-> gen.a, c |-> [gen.c EXCEPT ![new].status = "approved"]]
                   ELSE gen
       IN GenerateUsers(next, k + 1, outs)

generateContentForAllUsers ==
  \E outs \in [{u \in Users : PendingOf(activities, u) # {}} -> GenOutcomes] :
     LET st == GenerateUsers(Store, 1, outs)
     IN /\ Len(st.c) <= MaxContents
        /\ activities' = st.a
        /\ contents' = st.c
        /\ last' = Op("schedule_generate", 0, "none", Len(contents) + 1,
                      IF Len(st.c) > Len(contents) THEN "ok" ELSE "nothing", <<>>)
        /\ UNCHANGED <<users, tweets, procs, call, generator>>

Eligible(cons) ==
  {c \in DOMAIN cons : cons[c].status \in {"approved", "edited"} /\ ~cons[c].posted}

OnlyError == [NoMetadata EXCEPT !.error = TRUE]

\* TwitterService.postTweet for one Content, and the branch of
\* postApprovedContent for an owner without Twitter credentials
postOne(con, out) ==
  IF ~UserTable[con.user].twitterCreds
  THEN [con EXCEPT !.status = "error", !.metadata = OnlyError]
  ELSE IF out = "ok"
  THEN [con EXCEPT !.status = "posted", !.posted = TRUE]
  ELSE [con EXCEPT !.status = "rejected", !.metadata = OnlyError]

\* Scheduler.postApprovedContent: every Content that is approved or edited
\* and has no postedAt, each with an answer of the platform from outcomes
PostApproved(outcomes) ==
  /\ Eligible(contents) # {}
  /\ \E outs \in [Eligible(contents) -> outcomes] :
       LET after == [c \in DOMAIN contents |->
                       IF c \in Eligible(contents)
                       THEN postOne(contents[c], outs[c]) ELSE contents[c]]
       IN /\ contents' = after
          /\ tweets' = tweets \cup {c \in Eligible(contents) : after[c].posted}
          /\ last' = Op("post", 0, "none", 0, "ok", <<>>)
  /\ UNCHANGED <<users, activities, procs, call, generator>>

\* the platform answers the posting of a Content with an id or an error
postApprovedContent == PostApproved({"ok", "fail"})
postApprovedContentOk == PostApproved({"ok"})

\* a push of A's second commit while the pipeline runs
LaterPushes == {Payload("push", "A", TRUE, "none", <<2>>, NoMeta)}
handlePushEvent == \E p \in LaterPushes : Deliver(p)

\* and a push of B's first commit, whose owner has auto-approve on
TeamPushes == LaterPushes \cup {Payload("push", "B", TRUE, "none", <<1>>, NoMeta)}
handlePushEventTeam == \E p \in TeamPushes : Deliver(p)

\* generation whose provider answers with a text within the limit
ShortOutcome == [ai |-> "text", cast |-> TRUE, len |-> 120, fallbackLen |-> 120]
generateContentShort == \E chat \in Chats : TelegramGenerate(chat, ShortOutcome)

\* ------------------------------------------- postTweet, attempt by attempt
\* TwitterService's default for options.maxRetries
PostMaxRetries == 3

\* the update of the Content after the platform returned an id
postTweetSuccess_statusOnly(con) == [con EXCEPT !.status = "posted"]

postTweetSuccess(con) == [con EXCEPT !.status = "posted", !.posted = TRUE]

\* the update of the Content before the error is thrown again
postTweetFailure_keepsStatus(con) == [con EXCEPT !.metadata = OnlyError]

postTweetFailure(con) == [con EXCEPT !.status = "rejected", !.metadata = OnlyError]

\* Scheduler.postApprovedContent hands one Content of its query to postTweet
PostStart(c) ==
  /\ call.pc = "idle"
  /\ c \in Eligible(contents)
  /\ UserTable[contents[c].user].twitterCreds
  /\ call' = [pc |-> "attempt", cid |-> c, retries |-> 0, response |-> "none",
              accepted |-> 0]
  /\ last' = Op("tweet", 0, "none", call'.cid, "ok", <<>>)
  /\ UNCHANGED <<users, activities, contents, tweets, procs, generator>>

\* one pass of postTweet's loop: client.v2.tweet and what follows its answer
PostAttempt(resp) ==
  LET c == call.cid
      retry == resp = "retryable" /\ call.retries < PostMaxRetries
  IN /\ call.pc = "attempt"
     /\ contents' =
          CASE resp = "ok" -> [contents EXCEPT ![c] = postTweetSuccess(@)]
            [] resp = "ratelimit" \/ retry -> contents
            [] OTHER -> [contents EXCEPT ![c] = postTweetFailure(@)]
     /\ tweets' = IF resp = "ok" THEN tweets \cup {c} ELSE tweets
     /\ call' =
          CASE resp = "ok" -> [call EXCEPT !.pc = "returned", !.response = resp,
                                           !.accepted = @ + 1]
            [] resp = "ratelimit" -> [call EXCEPT !.pc = "sleeping", !.response = resp]
            [] retry -> [call EXCEPT !.pc = "sleeping", !.response = resp,
                                     !.retries = @ + 1]
            [] OTHER -> [call EXCEPT !.pc = "thrown", !.response = resp]
     /\ last' = Op("tweet", 0, "none", call'.cid, "ok", <<>>)
     /\ UNCHANGED <<users, activities, procs, generator>>

\* a pass in which client.v2.tweet returned an id and the update of the
\* Content then throws.  The throw lands in the same catch: an error that
\* isRetryableError accepts starts another pass; any other goes on to the
\* catch's own update, which the store may refuse as well (the error then
\* leaves postTweet with the Content as it was).  call.accepted counts the
\* ids the platform has returned to this call.
postTweetStoreFailure ==
  \E retryable, again \in BOOLEAN :
     LET c == call.cid
         retry == retryable /\ call.retries < PostMaxRetries
     IN /\ call.pc = "attempt"
        /\ tweets' = tweets \cup {c}
        /\ contents' = IF retry \/ again THEN contents
                       ELSE [contents EXCEPT ![c] = postTweetFailure(@)]
        /\ call' = [call EXCEPT !.pc = IF retry THEN "sleeping" ELSE "thrown",
                                !.response = "update_failed",
                                !.retries = IF retry THEN @ + 1 ELSE @,
                                !.accepted = @ + 1]
        /\ last' = Op("tweet", 0, "none", call'.cid, "ok", <<>>)
        /\ UNCHANGED <<users, activities, procs, generator>>

\* the sleep before the next pass is over
PostWake ==
  /\ call.pc = "sleeping"
  /\ call' = [call EXCEPT !.pc = "attempt"]
  /\ last' = Op("tweet", 0, "none", call'.cid, "ok", <<>>)
  /\ UNCHANGED <<users, activities, contents, tweets, procs, generator>>

\* postApprovedContent takes the result or catches the error and goes on
PostEnd ==
  /\ call.pc \in {"returned", "thrown"}
  /\ call' = NoCall
  /\ last' = Op("tweet", 0, "none", call.cid, "ok", <<>>)
  /\ UNCHANGED <<users, activities, contents, tweets, procs, generator>>

postTweetStart == \E c \in ContentIds : PostStart(c)
\* what the platform answers to one attempt: a tweet id, a 429, an error
\* isRetryableError accepts (network reset/timeout, 5xx), any other error
postTweetAttempt ==
  \E resp \in {"ok", "ratelimit", "retryable", "terminal"} : PostAttempt(resp)

\* ------------------------------------- approval commands, store call by call
\* approveContent and rejectContent suspended at their store calls; nothing
\* in either takes a lock or checks a version.  A command remembers the
\* document it read and the collections as they were when the first of the
\* commands in flight began.
Commands == {"approve", "reject"}
IdleCommand == [pc |-> "idle", chat |-> 0, user |-> "none", cid |-> 0,
                related |-> {}, metadata |-> NoMetadata, origin |-> <<>>]

Other(h) == IF h = "approve" THEN "reject" ELSE "approve"

Origin(h) ==
  IF procs[Other(h)].pc \in {"found", "saved", "updated"}
  THEN procs[Other(h)].origin ELSE Store

\* handleCallback "approve:<id>": User.findOne, then approveContent's
\* Content.findById and User.findById
ApproveFind ==
  /\ procs["approve"].pc = "idle"
  /\ \E chat \in Chats, cid \in ContentIds :
     procs' = [procs EXCEPT !["approve"] =
       [pc |-> IF FindUserByChat(chat) = "none" \/ cid \notin DOMAIN contents
               THEN "done" ELSE "found",
        chat |-> chat, user |-> FindUserByChat(chat), cid |-> cid,
        related |-> IF cid \in DOMAIN contents THEN contents[cid].related ELSE {},
        metadata |-> IF cid \in DOMAIN contents THEN contents[cid].metadata
                     ELSE NoMetadata,
        origin |-> Origin("approve")]]
  /\ UNCHANGED <<users, activities, contents, tweets, call, generator, last>>

\* content.save(): the paths set on the document read, status and metadata
ApproveSave ==
  /\ procs["approve"].pc = "found"
  /\ contents' = [contents EXCEPT
        ![procs["approve"].cid].status = "approved",
        ![procs["approve"].cid].metadata =
            [procs["approve"].metadata EXCEPT !.approvedBy = procs["approve"].user],
        ![procs["approve"].cid].unapprovedEdit = FALSE]
  /\ procs' = [procs EXCEPT !["approve"].pc = "saved"]
  /\ UNCHANGED <<users, activities, tweets, call, generator, last>>

\* Activity.updateMany(relatedActivities of the document read, published)
ApproveActivities ==
  /\ procs["approve"].pc = "saved"
  /\ activities' = SetStatus(activities, procs["approve"].related, "published")
  /\ procs' = [procs EXCEPT !["approve"].pc = "done"]
  /\ UNCHANGED <<users, contents, tweets, call, generator, last>>

\* rejectContent: Content.findById and the owner lookup
RejectFind ==
  /\ procs["reject"].pc = "idle"
  /\ \E chat \in Chats, cid \in ContentIds :
     procs' = [procs EXCEPT !["reject"] =
       [pc |-> IF cid \notin DOMAIN contents
                  \/ UserTable[contents[cid].user].chatId # chat
               THEN "done" ELSE "found",
        chat |-> chat, user |-> FindUserByChat(chat), cid |-> cid,
        related |-> IF cid \in DOMAIN contents THEN contents[cid].related ELSE {},
        metadata |-> NoMetadata,
        origin |-> Origin("reject")]]
  /\ UNCHANGED <<users, activities, contents, tweets, call, generator, last>>

\* Content.findByIdAndUpdate(contentId, {status: rejected})
RejectUpdate ==
  /\ procs["reject"].pc = "found"
  /\ contents' = [contents EXCEPT ![procs["reject"].cid].status = "rejected"]
  /\ procs' = [procs EXCEPT !["reject"].pc = "updated"]
  /\ UNCHANGED <<users, activities, tweets, call, generator, last>>

\* the loop over the related activities of the document read
RejectCascade ==
  /\ procs["reject"].pc = "updated"
  /\ activities' = SetStatus(activities,
        {i \in procs["reject"].related :
            ~hasApprovedContent(contents, i, procs["reject"].cid)},
        "processed")
  /\ procs' = [procs EXCEPT !["reject"].pc = "done"]
  /\ UNCHANGED <<users, contents, tweets, call, generator, last>>

\* the handler has returned
CommandEnd ==
  /\ \E h \in Commands :
       /\ procs[h].pc = "done"
       /\ procs' = [procs EXCEPT ![h] = IdleCommand]
  /\ UNCHANGED <<users, activities, contents, tweets, call, generator, last>>

\* ------------------------------------------------------ analytics refresh
\* TwitterService.getTweetAnalytics: the metrics, or zeros when the request
\* failed
getTweetAnalytics(fetch) == IF fetch = "ok" THEN "metrics" ELSE "zeros"

updateContentAnalytics_rejectsOnFailure(con, o) ==
  IF ~con.posted THEN con
  ELSE IF o.fetch = "fail" THEN [con EXCEPT !.status = "rejected"]
  ELSE IF o.write = "fail" THEN con
  ELSE [con EXCEPT !.analytics = getTweetAnalytics(o.fetch)]

\* TwitterService.updateContentAnalytics(content): nothing without a postId;
\* else the analytics field is replaced by what getTweetAnalytics returned,
\* unless the store refuses the update
updateContentAnalytics(con, o) ==
  IF ~con.posted THEN con
  ELSE IF o.write = "fail" THEN con
  ELSE [con EXCEPT !.analytics = getTweetAnalytics(o.fetch)]

UpdateContentAnalytics(c, o) ==
  /\ c \in DOMAIN contents
  /\ contents' = [contents EXCEPT ![c] = updateContentAnalytics(contents[c], o)]
  /\ last' = Op("analytics", 0, "none", c,
                IF contents[c].posted THEN "fetched" ELSE "skipped",
                IF contents[c].posted THEN <<o.fetch, o.write>> ELSE <<>>)
  /\ UNCHANGED <<users, activities, tweets, procs, call, generator>>

\* one refresh: whether the platform answered the metrics request and
\* whether the store took the update
AnalyticsOutcomes == [fetch : {"ok", "fail"}, write : {"ok", "fail"}]

refreshAnalytics ==
  \E c \in ContentIds, o \in AnalyticsOutcomes : UpdateContentAnalytics(c, o)

\* ------------------------------------------ generation with instructions
\* Activity.find({user, status in [pending, processed]}): the context of a
\* run with instructions (all of one repository here)
RecentActivities(acts, user) ==
  {i \in ActivitiesOf(acts, user) : acts[i].status \in {"pending", "processed"}}

\* the fallback text of a run with instructions, cut to the limit
TruncatedFallback(o) ==
  Text("fallback", IF o.fallbackLen > TweetLimit THEN TweetLimit ELSE o.fallbackLen)

\* ContentGenerator.generateContentWithInstructions: a Content from the
\* provider's text or, when the provider failed, from the fallback text;
\* nothing when the user has no recent activity; no Activity is updated
generateContentWithInstructions(st, user, o) ==
  LET ids == RecentActivities(st.a, user)
  IN IF ids = {} THEN st
     ELSE IF o.ai = "text"
     THEN [a |-> st.a, c |-> Append(st.c, NewContent(user, ids, Text("ai", o.len), FALSE))]
     ELSE [a |-> st.a, c |-> Append(st.c, NewContent(user, ids, TruncatedFallback(o), TRUE))]

\* TelegramService.generateContentWithInstructions(chatId, instructions)
TelegramInstruct(chat, o) ==
  LET user == FindUserByChat(chat)
      st == IF user = "none" THEN [a |-> activities, c |-> contents]
            ELSE generateContentWithInstructions([a |-> activities, c |-> contents], user, o)
  IN /\ Len(st.c) <= MaxContents
     /\ activities' = st.a
     /\ contents' = st.c
     /\ last' = Op("instruct", chat, user, Len(contents) + 1,
                   IF user = "none" THEN "unregistered"
                   ELSE IF Len(st.c) = Len(contents) THEN "null" ELSE "ok", o)
     /\ UNCHANGED <<users, tweets, procs, call, generator>>

\* the outcomes of one run with instructions: the provider's result is
\* destructured there, so the store is handed its text
handleGenerateWithInstructions ==
  \E chat \in Chats, o \in {g \in GenOutcomes : g.cast = (g.ai = "text")} :
     TelegramInstruct(chat, o)

\* ------------------------------------- the generator and its provider call
Providers == {"openai", "anthropic"}

\* the constructor's default for options.maxRetries
GenMaxRetries == 3

\* what a provider answers to one call: a completion, an error that
\* isRetryableError accepts (reset/timeout, 429, 5xx), any other error
ProviderResponses == {"text", "retryable", "fatal"}

\* ContentGenerator.validateProvider: the provider after the fall-back to
\* the other client
validateProvider(provider, openai, anthropic) ==
  IF provider = "openai" /\ ~openai /\ anthropic THEN "anthropic"
  ELSE IF provider = "anthropic" /\ ~anthropic /\ openai THEN "openai"
  ELSE provider

\* ContentGenerator's constructor: only the client of the requested
\* provider is created, and only if its key is set
Construct(requested, keys, opt) ==
  LET openai == requested = "openai" /\ keys["openai"]
      anthropic == requested = "anthropic" /\ keys["anthropic"]
  IN [NoGen EXCEPT !.pc = IF ~openai /\ ~anthropic THEN "config_error" ELSE "ready",
                   !.requested = requested,
                   !.keys = keys,
                   !.openai = openai,
                   !.anthropic = anthropic,
                   !.provider = validateProvider(requested, openai, anthropic),
                   !.maxRetries = IF opt = 0 THEN GenMaxRetries ELSE opt]

\* generateContentForRepository: the switch to the user's preferred provider
selectProvider(g, pref) ==
  IF /\ pref # "none" /\ pref # g.provider
     /\ \/ (pref = "openai" /\ g.openai)
        \/ (pref = "anthropic" /\ g.anthropic)
  THEN pref ELSE g.provider

\* callOpenAI / callAnthropic: whether a failed call is tried again
shouldRetry_oneMore(retries, maxRetries, resp) ==
  retries <= maxRetries /\ resp = "retryable"

shouldRetry(retries, maxRetries, resp) ==
  retries < maxRetries /\ resp = "retryable"

\* options.maxRetries as callers pass it: absent (0), or a number
NewGenerator ==
  /\ generator.pc = "none"
  /\ \E requested \in Providers, keys \in [Providers -> BOOLEAN], opt \in {0, 1, 2} :
       generator' = Construct(requested, keys, opt)
  /\ UNCHANGED <<users, activities, contents, tweets, procs, call, last>>

\* generateContentForRepository up to the entry of the provider's call loop
StartCall ==
  /\ generator.pc = "ready"
  /\ \E pref \in Providers \cup {"none"} :
       generator' = [generator EXCEPT !.pc = "calling", !.path = "callProvider",
                                      !.pref = pref,
                                      !.provider = selectProvider(generator, pref)]
  /\ UNCHANGED <<users, activities, contents, tweets, procs, call, last>>

\* generateTweetFromActivity up to the entry of generateWithRetry
StartGenerateWithRetry ==
  /\ generator.pc = "ready"
  /\ generator' = [generator EXCEPT !.pc = "calling", !.path = "generateWithRetry"]
  /\ UNCHANGED <<users, activities, contents, tweets, procs, call, last>>

\* one call of the provider in callOpenAI / callAnthropic and what follows
ProviderCall(resp) ==
  /\ generator.pc = "calling" /\ generator.path = "callProvider"
  /\ generator' =
       [generator EXCEPT
          !.calls = @ + 1,
          !.response = resp,
          !.fatalSeen = @ \/ resp = "fatal",
          !.retries = IF shouldRetry(generator.retries, generator.maxRetries, resp)
                      THEN @ + 1 ELSE @,
          !.pc = IF resp = "text" THEN "returned"
                 ELSE IF shouldRetry(generator.retries, generator.maxRetries, resp)
                 THEN "calling" ELSE "thrown"]
  /\ UNCHANGED <<users, activities, contents, tweets, procs, call, last>>

\* one pass of generateWithRetry: null when attempts reached maxRetries,
\* else one call of the provider, and on any error the next pass
GenerateWithRetryPass(resp) ==
  /\ generator.pc = "calling" /\ generator.path = "generateWithRetry"
  /\ generator' =
       IF generator.retries >= generator.maxRetries
       THEN [generator EXCEPT !.pc = "returned_null"]
       ELSE [generator EXCEPT
               !.calls = @ + 1,
               !.response = resp,
               !.fatalSeen = @ \/ resp = "fatal",
               !.retries = IF resp = "text" THEN @ ELSE @ + 1,
               !.pc = IF resp = "text" THEN "returned" ELSE "calling"]
  /\ UNCHANGED <<users, activities, contents, tweets, procs, call, last>>

callProvider == \E resp \in ProviderResponses : ProviderCall(resp)
generateWithRetry == \E resp \in ProviderResponses : GenerateWithRetryPass(resp)

\* ------------------------------------------------------ the specifications
\* The store after the push of A's first commit
Init ==
  /\ activities = PushLoop(<<>>, "A", <<1>>)
  /\ contents = <<>>
  /\ tweets = {}
  /\ procs = NoProcs
  /\ call = NoCall
  /\ generator = NoGen
  /\ users = <<>>
  /\ last = NoOp

\* the approval core: ingestion, generation, approve and reject over the
\* chat, successful publishing
Next ==
  \/ handlePushEvent
  \/ generateContentShort
  \/ handleCallbackApprove
  \/ handleCallbackReject
  \/ postApprovedContentOk

Spec == Init /\ [][Next]_vars

\* generation by the chat command and by the scheduler, every outcome of
\* the provider
SpecGenerate ==
  Init /\ [][
         \/ handlePushEventTeam
         \/ generateContent
         \/ generateContentForAllUsers]_vars

\* the chat commands: approve, reject and edit with every text
SpecChat ==
  Init /\ [][
         \/ generateContentShort
         \/ handleCallbackApprove
         \/ handleCallbackReject
         \/ handleCommandEdit]_vars

\* edits over the chat and the content API, and the publisher with every
\* answer of the platform
SpecPublish ==
  Init /\ [][
         \/ generateContentShort
         \/ handleCommandEdit
         \/ contentPut
         \/ postApprovedContent]_vars

\* what writes an Activity's status after ingestion: the chat pipeline, the
\* PATCH endpoint and the publish endpoint (the process endpoint has its own
\* specification, SpecProcess)
SpecActivity ==
  Init /\ [][
         \/ handlePushEvent
         \/ generateContentShort
         \/ handleCallbackApprove
         \/ handleCallbackReject
         \/ updateActivity
         \/ publishActivities]_vars

\* ----------------------------------------------------------------- claims
\* C3: approve, reject or edit of a Content from the chat of a registered
\* user who is not its owner ends with an authorization error and leaves the
\* Content and the activities as they were.
C3_AuthorizationBoundary ==
  [][(/\ last'.op \in {"approve", "reject", "edit"}
      /\ last'.target \in DOMAIN contents
      /\ last'.actor # "none"
      /\ last'.actor # contents[last'.target].user)
     => (/\ last'.result = "unauthorized"
         /\ contents' = contents
         /\ activities' = activities)]_vars

C5_ActivityMonotonic ==
  [][LET Forward == {<<"pending", "processed">>, <<"pending", "published">>,
                     <<"processed", "published">>}
     IN \A i \in DOMAIN activities :
          \/ activities'[i].status = activities[i].status
          \/ <<activities[i].status, activities'[i].status>> \in Forward
          \/ /\ activities[i].status = "published"
             /\ activities'[i].status = "processed"
             /\ last'.op = "reject"]_vars

C7_LengthContract ==
  \A c \in DOMAIN contents :
     contents[c].status \in {"approved", "posted"} => contents[c].text.len <= TweetLimit

\* C8: a Content edited and not approved since is not accepted by the
\* platform.
C8_EditReentersGate ==
  [][\A c \in DOMAIN contents :
       (c \notin tweets /\ c \in tweets') => ~contents[c].unapprovedEdit]_vars

\* C9: after the owner's reject of a Content each related activity that no
\* other approved or posted Content refers to has status processed, and each
\* one that another approved or posted Content refers to has the status it
\* had.
C9_RejectCascade ==
  [][(last'.op = "reject" /\ last'.result = "ok") =>
       \A i \in contents[last'.target].related :
          IF \E k \in DOMAIN contents' :
                /\ k # last'.target
                /\ i \in contents'[k].related
                /\ contents'[k].status \in {"approved", "posted"}
          THEN activities'[i].status = activities[i].status
          ELSE activities'[i].status = "processed"]_vars

\* the owner has rejected a Content of which one activity is held by another
\* approved or posted Content and one is not
C9_Witness ==
  /\ last.op = "reject" /\ last.result = "ok"
  /\ contents[last.target].status = "rejected"
  /\ \E i, j \in contents[last.target].related :
        /\ \E k \in DOMAIN contents :
              /\ k # last.target /\ i \in contents[k].related
              /\ contents[k].status \in {"approved", "posted"}
        /\ activities[i].status = "published"
        /\ ~ \E k \in DOMAIN contents :
              /\ k # last.target /\ j \in contents[k].related
              /\ contents[k].status \in {"approved", "posted"}
        /\ activities[j].status = "processed"

\* C10: every change of a Content's status is a step of the lattice
\* pending to approved, rejected or edited, edited to approved, approved to
\* posted, or a reject from a state before posted.
C10_ContentLattice ==
  [][LET PrePosted == {"pending", "approved", "edited"}
         Lattice ==
           {<<"pending", "approved">>, <<"pending", "rejected">>,
            <<"pending", "edited">>, <<"edited", "approved">>,
            <<"approved", "posted">>}
           \cup {<<s, "rejected">> : s \in PrePosted}
     IN \A c \in DOMAIN contents :
          \/ contents'[c].status = contents[c].status
          \/ <<contents[c].status, contents'[c].status>> \in Lattice]_vars

\* C11: the platform accepts a Content only from the publisher finding it in
\* status approved with no scheduled-for time in the future.
C11_PublisherPrecondition ==
  [][\A c \in DOMAIN contents :
       (c \notin tweets /\ c \in tweets') =>
          /\ contents[c].status = "approved"
          /\ contents[c].scheduledFor # "later"]_vars

\* the publisher call by call: generation, approval and the content API
\* around a postTweet that runs attempt by attempt

\* handleCallback "approve:<id>" from the chat of the Content's owner
handleCallbackApproveOwn ==
  \E cid \in DOMAIN contents : ApproveCallback(UserTable[contents[cid].user].chatId, cid)

SpecPost ==
  Init /\ [][
         \/ generateContentShort
         \/ handleCallbackApproveOwn
         \/ postTweetStart
         \/ postTweetAttempt
         \/ PostWake
         \/ PostEnd]_vars

\* every step of postTweet that can be taken is taken in the end
SpecPostFair == SpecPost /\ WF_vars(postTweetAttempt \/ PostWake \/ PostEnd)

\* C12: when the platform answers an attempt with a tweet id, the Content
\* gets its post id, url and time and status posted, and postTweet returns.
C12_PublisherSuccess ==
  [][(call.pc = "attempt" /\ call'.pc # "attempt" /\ call'.response = "ok") =>
       /\ contents'[call.cid].status = "posted"
       /\ contents'[call.cid].posted
       /\ call.cid \in tweets'
       /\ call'.pc = "returned"]_vars

\* a tweet was accepted on an attempt that followed a retry
C12_Witness ==
  /\ call.pc = "returned" /\ call.response = "ok" /\ call.retries > 0
  /\ contents[call.cid].status = "posted" /\ contents[call.cid].posted

\* C13: when an attempt fails with a terminal error the Content moves to an
\* error state that is not rejected and carries the reason, and the call
\* ends without another attempt.
C13_TerminalErrorState ==
  [][(call.pc = "attempt" /\ call'.pc # "attempt" /\ call'.response = "terminal") =>
       /\ contents'[call.cid].status = "error"
       /\ contents'[call.cid].metadata.error
       /\ call'.pc = "thrown"]_vars

C15_PostingTerminates ==
  (call.pc = "attempt") ~> (call.pc \in {"returned", "thrown"})

\* a generator from its construction to the end of one provider call loop

SpecProvider ==
  Init /\ [][
         \/ NewGenerator
         \/ StartCall
         \/ StartGenerateWithRetry
         \/ callProvider
         \/ generateWithRetry]_vars

C17_FatalNotRetried ==
  generator.fatalSeen =>
    /\ generator.pc = "thrown"
    /\ generator.response = "fatal"

\* C18: generation uses the user's preferred provider whenever that
\* provider has credentials, and the constructor's default otherwise.
C18_ProviderSelection ==
  (generator.path = "callProvider" /\ generator.pc \in {"calling", "returned", "thrown"}) =>
    generator.provider =
      IF generator.pref # "none" /\ generator.keys[generator.pref]
      THEN generator.pref ELSE generator.requested

\* C19: with no credentials at all construction fails with the
\* configuration error before any provider call; with credentials for at
\* least one provider the generator is constructed, whichever was requested.
C19_NoProviderFatal ==
  generator.pc # "none" =>
    /\ (\A p \in Providers : ~generator.keys[p]) =>
         (generator.pc = "config_error" /\ generator.calls = 0)
    /\ (\E p \in Providers : generator.keys[p]) => generator.pc # "config_error"

\* generation over the chat, with and without instructions
SpecInstruct ==
  Init /\ [][
         \/ handlePushEvent
         \/ generateContent
         \/ handleGenerateWithInstructions]_vars

\* C20: a generate operation, with or without instructions, that returns a
\* Content made from the provider's text leaves that Content pending with
\* the provider's output as its text, and every Activity the Content
\* relates to processed.
C20_GenerationMarksInputs ==
  [][\A c \in (Len(contents) + 1)..Len(contents') :
       (/\ last'.op \in {"generate", "instruct"}
        /\ last'.outcome.ai = "text"
        /\ ~contents'[c].metadata.generatedByFallback) =>
         /\ contents'[c].status = "pending"
         /\ contents'[c].text = Text("ai", last'.outcome.len)
         /\ \A i \in contents'[c].related : activities'[i].status = "processed"]_vars

\* ------------------------------------------------- the webhook endpoint
Modes == {"production", "development"}

\* verifyGitHubSignature: true, false, or the RangeError crypto.timingSafeEqual
\* throws for buffers of different byte lengths
verifyGitHubSignature(sig, secret, mode) ==
  IF sig = "missing" \/ ~secret
  THEN (IF mode = "development" THEN "valid" ELSE "invalid")
  ELSE IF sig = "match" THEN "valid"
  ELSE IF sig = "mismatch" THEN "invalid"
  ELSE "throws"

\* the events the endpoint is sent: pushes of A with batches that may hold a
\* commit the store rejects, one push of every other owner, a pull request
\* of a dropped owner and an event of a type the switch has no case for
EndpointPayloads ==
  {Payload("push", "A", TRUE, "none", c, NoMeta) :
      c \in UNION {[1..n -> Shas \cup FailingShas] : n \in 1..MaxBatch}}
  \cup {Payload("push", l, TRUE, "none", <<1>>, NoMeta) : l \in Logins \ {"A"}}
  \cup {Payload("pull_request", "ghost", TRUE, "opened", <<1>>, DefaultMeta)}
  \cup {Payload("ping", "A", TRUE, "none", <<>>, NoMeta)}

\* the status the endpoint answers with
ResponseStatus(method, sig, secret, mode) ==
  IF method # "POST" THEN 405
  ELSE IF verifyGitHubSignature(sig, secret, mode) = "throws" THEN 500
  ELSE IF verifyGitHubSignature(sig, secret, mode) = "invalid" THEN 401
  ELSE 200

\* one request to /api/webhooks/github, handled start to end
Request(method, sig, secret, mode, p) ==
  LET status == ResponseStatus(method, sig, secret, mode)
      acts == IF status = 200 THEN WebhookResult(activities, p) ELSE activities
  IN /\ Len(acts) <= MaxActivities
     /\ activities' = acts
     /\ last' = [op |-> "request", method |-> method, sig |-> sig,
                 secret |-> secret, mode |-> mode, payload |-> p,
                 before |-> Len(activities), status |-> status]
     /\ UNCHANGED <<users, contents, tweets, procs, call, generator>>

\* What a request carries in x-hub-signature-256: nothing, the digest of
\* its body, another string of the digest's length, a string of another
\* length
handler ==
  \E method \in {"POST", "GET"},
     sig \in {"missing", "match", "mismatch", "mismatch_length"}, secret \in BOOLEAN, mode \in Modes,
     p \in EndpointPayloads : Request(method, sig, secret, mode, p)

SpecEndpoint == InitIngest /\ [][handler]_vars

\* C21: in production a request whose signature is missing or does not
\* match is answered 401 and leaves the Activity collection as it was; a
\* request is processed without a verified signature only in development
\* and only when the signature or the secret is absent.
C21_SignatureGate ==
  [][(last'.op = "request" /\ last'.method = "POST") =>
       /\ (last'.mode = "production" /\ last'.sig # "match") =>
            (last'.status = 401 /\ activities' = activities)
       /\ (last'.status = 200 /\ ~(last'.sig = "match" /\ last'.secret)) =>
            (last'.mode = "development" /\ (last'.sig = "missing" \/ ~last'.secret))]_vars

\* the endpoint under correctly signed requests only
handlerSigned ==
  \E mode \in Modes, p \in EndpointPayloads : Request("POST", "match", TRUE, mode, p)

SpecSigned == InitIngest /\ [][handlerSigned]_vars

\* C22: a correctly signed event whose repository owner is no user, or a
\* user without a GitHub access token, and an event of a type the endpoint
\* does not handle, leave the Activity collection as it was and are
\* answered 200.
C22_BestEffortDrop ==
  [][(/\ last'.op = "request" /\ last'.method = "POST"
      /\ last'.sig = "match" /\ last'.secret
      /\ \/ last'.payload.login \notin Users
         \/ ~UserTable[last'.payload.login].githubToken
         \/ last'.payload.kind \notin {"push", "pull_request", "issues", "release"}) =>
       (activities' = activities /\ last'.status = 200)]_vars

\* a signed push of the token-less user C has been answered while the
\* collection held Activities of others
C22_Witness ==
  /\ last.op = "request" /\ last.sig = "match" /\ last.secret
  /\ last.payload.kind = "push" /\ last.payload.login = "C"
  /\ last.status = 200
  /\ Len(activities) = last.before
  /\ Len(activities) > 0

\* C23: after a push event of an accepted owner has been handled, every
\* commit of the batch that the store accepts has an Activity, whatever
\* happened to the commits before it in the batch.
C23_BatchIsolation ==
  (/\ last.op = "request" /\ last.status = 200
   /\ last.payload.kind = "push" /\ AcceptedOwner(last.payload)) =>
     \A k \in DOMAIN last.payload.items :
        last.payload.items[k] \notin FailingShas =>
          FindActivity(activities, FindUserByLogin(last.payload.login), "commit",
                       last.payload.items[k]) # 0

\* pull request and issue events whose labels vary
SpecLabels == InitIngest /\ [][DeliverLabelled]_vars

\* C24: when a pull request or issue event arrives for a natural key that
\* already has an Activity, no second Activity is created, and the Activity
\* is rewritten if and only if its state, merge flag or labels differ from
\* the event's.
C24_ResightingUpdates ==
  [][(/\ last'.op = "webhook"
      /\ last'.payload.kind \in {"pull_request", "issues"}
      /\ Ingested(last'.payload)
      /\ FindActivity(activities, last'.payload.login, KindType(last'.payload.kind),
                      last'.payload.items[1]) # 0) =>
       LET f == FindActivity(activities, last'.payload.login,
                             KindType(last'.payload.kind), last'.payload.items[1])
       IN /\ Len(activities') = Len(activities)
          /\ (activities'[f] # activities[f]) <=>
               \/ activities[f].meta.state # last'.payload.meta.state
               \/ activities[f].meta.merged # last'.payload.meta.merged
               \/ activities[f].meta.labels # last'.payload.meta.labels]_vars

\* the approval commands of the chat, scheduling included
SpecCommands ==
  Init /\ [][
         \/ generateContentShort
         \/ handleCallbackApprove
         \/ handleCallbackReject
         \/ handleCommandEdit
         \/ handleCallbackSchedule
         \/ handleCallbackScheduleTime]_vars

\* C25: every approval command or button callback sends exactly one message
\* to the acting chat.
C25_ExactlyOneReply ==
  last.op \in {"approve", "reject", "edit", "schedule", "schedule_time"} =>
    Len(last.replies) = 1

\* C26: a command on a Content that exists but belongs to another user is
\* answered exactly as the same command on an id that does not exist.
C26_NoExistenceLeak ==
  (/\ last.op \in {"approve", "reject", "edit", "schedule"}
   /\ last.actor # "none"
   /\ last.target \in DOMAIN contents
   /\ contents[last.target].user # last.actor) =>
     last.replies = Replies(last.op, "not_found")

\* C27: an Activity is published only if some Content that relates to it
\* has status posted.
C27_PublishedMeansPosted ==
  \A i \in DOMAIN activities :
     activities[i].status = "published" =>
       \E c \in DOMAIN contents : i \in contents[c].related /\ contents[c].status = "posted"

\* C28: the schedule command succeeds only for the owner of a Content that
\* is approved; choosing an option then sets the Content's scheduled-for to
\* that option's time; every other schedule callback leaves scheduled-for
\* and status as they were.
C28_SchedulePrecondition ==
  [][/\ (last'.op = "schedule" /\ last'.result = "ok") =>
          /\ contents[last'.target].user = last'.actor
          /\ contents[last'.target].status = "approved"
     /\ (/\ last'.op = "schedule_time"
         /\ last'.target \in DOMAIN contents
         /\ contents[last'.target].user = last'.actor
         /\ contents[last'.target].status = "approved") =>
          contents'[last'.target].scheduledFor = last'.outcome[1]
     /\ (/\ last'.op \in {"schedule", "schedule_time"}
         /\ last'.target \in DOMAIN contents
         /\ ~(/\ contents[last'.target].user = last'.actor
              /\ contents[last'.target].status = "approved")) =>
          /\ contents'[last'.target].scheduledFor = contents[last'.target].scheduledFor
          /\ contents'[last'.target].status = contents[last'.target].status]_vars

\* posted Content and the refresh of its analytics
SpecAnalytics ==
  Init /\ [][
         \/ generateContentShort
         \/ handleCallbackApprove
         \/ postApprovedContentOk
         \/ refreshAnalytics]_vars

\* C29: a refresh of a Content's analytics, whether the metrics request
\* succeeds or fails, leaves the Content's status and post fields as they
\* were, and for a Content without a postId it fetches nothing and writes
\* nothing.
C29_AnalyticsStatusNeutral ==
  [][last'.op = "analytics" =>
       /\ contents'[last'.target].status = contents[last'.target].status
       /\ contents'[last'.target].posted = contents[last'.target].posted
       /\ tweets' = tweets
       /\ ~contents[last'.target].posted =>
            (last'.result = "skipped" /\ contents' = contents)]_vars

\* a posted Content whose metrics request failed: zeros stored, still posted
C29_Witness ==
  /\ last.op = "analytics" /\ last.result = "fetched"
  /\ last.outcome = <<"fail", "ok">>
  /\ contents[last.target].status = "posted"
  /\ contents[last.target].analytics = "zeros"

\* approve and reject interleaved, on the Content generated from A's commit
InitSerial ==
  /\ activities = <<[NewActivity("A", "commit", 1, NoMeta) EXCEPT !.status = "processed"]>>
  /\ contents = <<NewContent("A", {1}, Text("ai", 120), FALSE)>>
  /\ tweets = {}
  /\ procs = [h \in Commands |-> IdleCommand]
  /\ call = NoCall
  /\ generator = NoGen
  /\ users = <<>>
  /\ last = NoOp

SpecSerial ==
  InitSerial /\ [][
         \/ ApproveFind
         \/ ApproveSave
         \/ ApproveActivities
         \/ RejectFind
         \/ RejectUpdate
         \/ RejectCascade
         \/ CommandEnd]_vars

\* C30: when an approve and a reject of the same Content, begun from the
\* same collections, have both returned, the Content and the activities
\* are as after approve then reject, or as after reject then approve.
C30_PerContentSerialization ==
  (/\ procs["approve"].pc = "done" /\ procs["reject"].pc = "done"
   /\ procs["approve"].cid = procs["reject"].cid
   /\ procs["approve"].origin = procs["reject"].origin
   /\ procs["approve"].origin # <<>>
   /\ procs["approve"].user # "none") =>
     LET o == procs["approve"].origin
         cid == procs["approve"].cid
         ar == rejectContent(approveContent(o, cid, procs["approve"].user),
                             cid, procs["reject"].chat)
         ra == approveContent(rejectContent(o, cid, procs["reject"].chat),
                              cid, procs["approve"].user)
     IN \/ (activities = ar.a /\ contents = ar.c)
        \/ (activities = ra.a /\ contents = ra.c)

\* the process endpoint over activities of two users, pending and processed
SpecProcess ==
  Init /\ [][
         \/ handlePushEventTeam
         \/ generateContentShort
         \/ processActivities]_vars

\* C31: a POST to the process endpoint moves exactly the requested
\* Activities that are the session user's and pending to processed, with
\* their content set; every other Activity stays as it was; when none
\* qualifies the answer is 404 and nothing is written.
C31_ProcessApi ==
  [][last'.op = "process" =>
       LET ids == last'.outcome[1]
           sel == {i \in ids \cap DOMAIN activities :
                     /\ activities[i].userId = last'.actor
                     /\ activities[i].status = "pending"}
       IN /\ DOMAIN activities' = DOMAIN activities
          /\ \A i \in sel :
               activities'[i] = [activities[i] EXCEPT !.status = "processed",
                                                      !.content = "placeholder"]
          /\ \A i \in DOMAIN activities \ sel : activities'[i] = activities[i]
          /\ (sel = {}) <=> (last'.result = "not_found")
          /\ contents' = contents]_vars

\* a request naming a pending Activity of the session user, one of another
\* user and one that is not pending has been answered
C31_Witness ==
  /\ last.op = "process" /\ last.result = "ok"
  /\ \E i, j, k \in last.outcome[1] \cap DOMAIN activities :
       /\ activities[i].userId = last.actor
       /\ activities[i].content = "placeholder"
       /\ activities[j].userId # last.actor
       /\ activities[j].status = "pending"
       /\ activities[k].userId = last.actor
       /\ activities[k].content = "none"
       /\ activities[k].status = "processed"

\* a push of one new commit (a sha not seen before, so the lookup finds
\* nothing) by A or B to either of two repositories
handlePushEventRepo ==
  \E login \in {"A", "B"}, repo \in {"r1", "r2"} :
     LET sha == Len(activities) + 1
     IN /\ Len(activities) < MaxActivities
        /\ activities' =
             Append(activities,
                    [NewActivity(FindUserByLogin(login), "commit", sha, NoMeta)
                       EXCEPT !.repo = repo])
        /\ last' = [op |-> "webhook",
                    payload |-> Payload("push", login, TRUE, "none", <<sha>>, NoMeta),
                    before |-> Len(activities), repeat |-> FALSE]
        /\ UNCHANGED <<users, contents, tweets, procs, call, generator>>

\* scheduled generation over activities of two repositories
SpecSubject ==
  InitIngest /\ [][
         \/ handlePushEventRepo
         \/ generateContentForAllUsers]_vars

\* C32: generateContent takes the repository group with the most of the
\* user's unprocessed activities, among groups of equal size the one whose
\* first activity comes earliest in the input (the newest activity); the new
\* Content references that group only and only that group is consumed.
C32_SubjectSelection ==
  [][last'.op = "schedule_generate" =>
       \A u \in Users :
          LET ids == {i \in DOMAIN activities :
                        activities[i].userId = u /\ activities[i].status = "pending"}
              Group(r) == {i \in ids : activities[i].repo = r}
              Newest(G) == CHOOSE i \in G : \A j \in G : j <= i
              Best(r) ==
                /\ Group(r) # {}
                /\ \A q \in {"r1", "r2"} \ {r} :
                      \/ Cardinality(Group(r)) > Cardinality(Group(q))
                      \/ /\ Cardinality(Group(r)) = Cardinality(Group(q))
                         /\ Newest(Group(r)) > Newest(Group(q))
          IN ids # {} =>
               \E c \in (Len(contents) + 1)..Len(contents'), r \in {"r1", "r2"} :
                  /\ Best(r)
                  /\ contents'[c].user = u
                  /\ contents'[c].related = Group(r)
                  /\ \A i \in ids :
                        activities'[i].status =
                          IF i \in Group(r) THEN "processed" ELSE "pending"]_vars

\* a run that chose between two groups of the same size: the Content's group
\* and a group of as many activities of the same user that stayed pending
C32_Witness ==
  /\ last.op = "schedule_generate" /\ last.result = "ok"
  /\ \E c \in DOMAIN contents, q \in {"r1", "r2"} :
       LET left == {i \in DOMAIN activities :
                      /\ activities[i].userId = contents[c].user
                      /\ activities[i].status = "pending"
                      /\ activities[i].repo = q}
       IN /\ c >= last.target
          /\ left # {}
          /\ Cardinality(left) = Cardinality(contents[c].related)
          /\ \A i \in contents[c].related : activities[i].repo # q

\* handleCommand, cases '/approve' and '/reject': the text command is
\* answered with a pointer to the buttons; no document is read or written
handleCommandText ==
  \E chat \in Chats, cid \in ContentIds, command \in {"/approve", "/reject"} :
     /\ last' = [Op(command, chat, FindUserByChat(chat), cid, "help", <<>>)
                   EXCEPT !.replies = <<"please use the button on the content">>]
     /\ UNCHANGED <<users, activities, contents, tweets, procs, call, generator>>

\* the approval core with the text commands next to the buttons
SpecText ==
  Init /\ [][
         \/ handlePushEvent
         \/ generateContentShort
         \/ handleCallbackApprove
         \/ handleCallbackReject
         \/ handleCommandText]_vars

\* C33: a /approve <id> message from the chat of the Content's owner moves
\* the Content to approved, a /reject <id> message moves it to rejected.
C33_TextCommands ==
  [][(/\ last'.op \in {"/approve", "/reject"}
      /\ last'.target \in DOMAIN contents
      /\ contents[last'.target].status = "pending"
      /\ UserTable[contents[last'.target].user].chatId = last'.chat)
       => contents'[last'.target].status =
            IF last'.op = "/approve" THEN "approved" ELSE "rejected"]_vars

\* the life of a Content of either owner: generation, the approve button,
\* and the scheduler's post run with either answer of the platform
SpecLifecycle ==
  Init /\ [][
         \/ handlePushEventTeam
         \/ generateContentShort
         \/ handleCallbackApprove
         \/ postApprovedContent]_vars

\* C34: in every reachable state each Content's status is one of pending,
\* approved, edited, rejected, posted.
C34_StatusDomain ==
  \A c \in DOMAIN contents :
     contents[c].status \in {"pending", "approved", "edited", "rejected", "posted"}

\* posting attempt by attempt, with a store that may refuse an update
SpecStore ==
  Init /\ [][
         \/ generateContentShort
         \/ handleCallbackApproveOwn
         \/ postTweetStart
         \/ postTweetAttempt
         \/ postTweetStoreFailure
         \/ PostWake
         \/ PostEnd]_vars

\* C35: the platform accepts each Content at most once: no pass of postTweet
\* gets an id for a Content the platform has accepted before.
C35_AtMostOnce ==
  [][(call.pc = "attempt" /\ call'.accepted > call.accepted)
       => call.cid \notin tweets]_vars

\* post runs keep occurring (every Content the query selects is handed to
\* postTweet in some run, a sleeping call wakes, a finished one returns) and
\* the platform does not answer with 429 or a retryable error forever
SpecProgress ==
  /\ SpecPost
  /\ \A c \in 1..MaxContents : SF_vars(PostStart(c))
  /\ WF_vars(PostWake)
  /\ WF_vars(PostEnd)
  /\ SF_vars(PostAttempt("ok") \/ PostAttempt("terminal"))

\* C36: every Content that reaches status approved reaches status posted or
\* a failure state that carries an error reason; it does not stay approved.
C36_ApprovedProgress ==
  \A c \in 1..MaxContents :
     (c \in DOMAIN contents /\ contents[c].status = "approved")
       ~> (/\ c \in DOMAIN contents
           /\ \/ contents[c].status = "posted"
              \/ /\ contents[c].status \in {"rejected", "error"}
                 /\ contents[c].metadata.error)

\* ------------------------------------------------------------ /register
\* User.findOne({<field>: value}): the first match, 0 if none
FindUser(us, field, value) ==
  IF \E i \in DOMAIN us : us[i][field] = value
  THEN CHOOSE i \in DOMAIN us :
         us[i][field] = value /\ \A j \in DOMAIN us : us[j][field] = value => i <= j
  ELSE 0

IdleRegister == [pc |-> "idle", chat |-> 0, username |-> "none", found |-> 0]

\* registerOrLinkUser(chatId, username), first store call: the user of this
\* chat id; a chat that is linked already is told so and the handler returns.
\* msg.chat.id and msg.from.username are independent inputs (in a group chat
\* several senders share the chat id); "none" is a sender without username.
registerFindChat ==
  \E h \in DOMAIN procs, chat \in Chats, username \in {"a", "b", "none"} :
     LET existing == FindUser(users, "chatId", chat)
     IN /\ procs[h].pc = "idle"
        /\ procs' = [procs EXCEPT ![h] =
                       IF existing # 0 THEN IdleRegister
                       ELSE [pc |-> "unlinked", chat |-> chat, username |-> username,
                             found |-> 0]]
        /\ last' = Op("register", chat, username, existing,
                      IF existing # 0 THEN "already_linked" ELSE "lookup", <<>>)
        /\ UNCHANGED <<activities, contents, tweets, call, generator, users>>

\* second store call: the user with this Telegram username, if one is given
registerFindUsername ==
  \E h \in DOMAIN procs :
     /\ procs[h].pc = "unlinked"
     /\ procs' = [procs EXCEPT ![h].pc = "looked",
                               ![h].found = IF procs[h].username = "none" THEN 0
                                            ELSE FindUser(users, "username",
                                                          procs[h].username)]
     /\ UNCHANGED <<activities, contents, tweets, call, generator, users, last>>

\* third store call: User.create with the placeholder email of the chat id
\* (the unique index on email refuses a second one; the catch answers with
\* an error), or user.save() with the chat id set on the user found
registerWrite ==
  \E h \in DOMAIN procs :
     LET r == procs[h]
         duplicate == \E i \in DOMAIN users : users[i].email = r.chat
     IN /\ r.pc = "looked"
        /\ users' =
             IF r.found # 0 THEN [users EXCEPT ![r.found].chatId = r.chat]
             ELSE IF duplicate THEN users
             ELSE Append(users, [email |-> r.chat, chatId |-> r.chat,
                                 username |-> r.username])
        /\ procs' = [procs EXCEPT ![h] = IdleRegister]
        /\ last' = Op("register", r.chat, r.username, r.found,
                      IF r.found = 0 /\ duplicate THEN "error" ELSE "ok", <<>>)
        /\ UNCHANGED <<activities, contents, tweets, call, generator>>

\* an empty User collection and two /register handlers
InitRegister ==
  /\ activities = <<>>
  /\ contents = <<>>
  /\ tweets = {}
  /\ procs = [h \in {"register1", "register2"} |-> IdleRegister]
  /\ call = NoCall
  /\ generator = NoGen
  /\ users = <<>>
  /\ last = NoOp

SpecRegister ==
  InitRegister /\ [][
         \/ registerFindChat
         \/ registerFindUsername
         \/ registerWrite]_vars

\* C37: after any sequence and interleaving of /register commands each chat
\* id is linked to at most one User.
C37_ChatUnique ==
  \A i, j \in DOMAIN users : users[i].chatId = users[j].chatId => i = j

\* ----------------------------------------------------- metadata refresh
\* a pull request and an issue of A, each ingested when it was opened
InitRefresh ==
  /\ activities =
       handleIssueEventResult(
         handlePullRequestEventResult(
           <<>>, Payload("pull_request", "A", TRUE, "opened", <<1>>, DefaultMeta)),
         Payload("issues", "A", TRUE, "opened", <<1>>, DefaultMeta))
  /\ contents = <<>>
  /\ tweets = {}
  /\ procs = NoProcs
  /\ call = NoCall
  /\ generator = NoGen
  /\ users = <<>>
  /\ last = NoLast

\* a delivery about a pull request or an issue seen before whose state (or
\* merged flag) differs from the stored one: the in-place update
handleEventSeen ==
  \E p \in PullRequestPayloads \cup IssuePayloads :
     /\ Len(WebhookResult(activities, p)) = Len(activities)
     /\ WebhookResult(activities, p) # activities
     /\ Deliver(p)

\* re-sighted pull requests and issues between the dashboard's process and
\* publish requests
SpecRefresh ==
  InitRefresh /\ [][
         \/ handleEventSeen
         \/ processActivities
         \/ publishActivities]_vars

\* C38: the in-place update of an Activity for a re-sighted pull request or
\* issue changes its title, description and metadata (meta) only: status,
\* owner and every other field stay, so a processed or published Activity is
\* not returned to pending.
C38_RefreshKeepsLifecycle ==
  [][last'.op = "webhook" =>
       /\ Len(activities') = Len(activities)
       /\ \A i \in DOMAIN activities :
            activities'[i] = [activities[i] EXCEPT !.meta = activities'[i].meta]]_vars

\* the pull request, processed or published before, has just been updated
C38_Witness ==
  /\ last.op = "webhook" /\ last.payload.kind = "pull_request"
  /\ \E i \in DOMAIN activities :
       /\ activities[i].type = "pr"
       /\ activities[i].ext = last.payload.items[1]
       /\ activities[i].meta = last.payload.meta
       /\ activities[i].meta.merged
       /\ activities[i].status \in {"processed", "published"}

\* C39: when the metrics request fails during updateContentAnalytics the
\* analytics counts stored for the Content (a snapshot of an earlier refresh)
\* keep their previous values.
C39_FailedFetchKeepsSnapshot ==
  [][(/\ last'.op = "analytics"
      /\ last'.result = "fetched"
      /\ last'.outcome[1] = "fail"
      /\ contents[last'.target].analytics # "none")
       => contents'[last'.target].analytics = contents[last'.target].analytics]_vars

====
